---- MODULE Spec2Model ----
(***************************************************************************)
(* Verse delivery core of memory-verse-api: the on-demand resolver          *)
(* (MemoryVerseService.GetUserDashboard, both revisions kept in            *)
(* service.go), the sweep scheduler (StartScheduler / runVerseDistribution)*)
(* and the storage operations they call.                                   *)
(*                                                                         *)
(* Time is counted in seconds.  A database call is one atomic step; the    *)
(* steps of concurrent invocations interleave freely.  The clock steps are *)
(* an hour and longer while an invocation takes milliseconds, so the clock *)
(* moves only between invocations and stands still once the scheduler's    *)
(* context is cancelled.                                                   *)
(***************************************************************************)
EXTENDS Integers, Sequences, FiniteSets, Bags, TLC

(* ------------------------------ bounds --------------------------------- *)
NumUsers == 2
MaxProcs == 2
MaxCalls == 2
MaxAdvances == 2
MaxFaults == 1
MaxOps == 2
MaxResets == 2
NumOtps == 2

(* -------------------------- program constants -------------------------- *)
SecondsPerHour == 3600
DailyHours == 24
WeeklyHours == 168
SweepDefaultSeconds == 5
OtpMinutes == 10
SweepWeeklyDays == 7
HoursPerDay == 24
DevTickerHours == 1
ProdTickerHours == 24

Users == 1 .. NumUsers
Procs == 1 .. MaxProcs
Resets == 1 .. MaxResets

(* util.GenerateOTP: some value of a small range *)
OTPs == 1 .. NumOtps

(* memory_verses: two artifacts, both of translation KJV; NIV has none.    *)
Verses == {1, 2}
VerseTranslation(v) == "KJV"

(* Clock steps: 1 h, 23 h, 168 h.                                          *)
ClockSteps == {SecondsPerHour, 23 * SecondsPerHour, WeeklyHours * SecondsPerHour}

(* Rows of users LEFT JOIN user_profiles the model starts from.            *)
(* CompleteUserProfile writes the profile row and MarkProfileCompleted     *)
(* sets is_profile_completed in a second statement, so a row may carry a   *)
(* pace and a translation while the flag is still false.                   *)
UserConfigs ==
  { [completed |-> TRUE,  pace |-> "daily",   translation |-> "KJV", subscribed |-> TRUE,  lastSent |-> <<>>],
    [completed |-> TRUE,  pace |-> "Weekly",  translation |-> "KJV", subscribed |-> TRUE,  lastSent |-> <<>>],
    [completed |-> TRUE,  pace |-> "weekly",  translation |-> "KJV", subscribed |-> TRUE,  lastSent |-> <<>>],
    [completed |-> TRUE,  pace |-> "monthly", translation |-> "KJV", subscribed |-> TRUE,  lastSent |-> <<>>],
    [completed |-> TRUE,  pace |-> "daily",   translation |-> "NIV", subscribed |-> TRUE,  lastSent |-> <<>>],
    [completed |-> FALSE, pace |-> "",        translation |-> "",    subscribed |-> TRUE,  lastSent |-> <<>>],
    [completed |-> FALSE, pace |-> "daily",   translation |-> "KJV", subscribed |-> TRUE,  lastSent |-> <<>>],
    [completed |-> TRUE,  pace |-> "daily",   translation |-> "KJV", subscribed |-> FALSE, lastSent |-> <<>>] }

OtherConfigs ==
  { [completed |-> TRUE, pace |-> "daily", translation |-> "KJV", subscribed |-> TRUE, lastSent |-> <<>>] }

(* The database outlives the process: user 1 may start with one delivery   *)
(* made at time 0 by an earlier sweep (row and marker both written).       *)
SeedRecord == [user |-> 1, verse |-> 1, at |-> 0]

VARIABLES
  rev,        \* which revision of GetUserDashboard in service.go is built: 1 or 2
  appEnv,     \* APP_ENV
  now,        \* wall clock, seconds
  advances,   \* clock steps taken
  users,      \* users LEFT JOIN user_profiles, by user id
  history,    \* user_verse_history, a bag of rows [user, verse, at]
  procs,      \* invocations of GetUserDashboard in flight (requests and sweep goroutines)
  calls,      \* invocations started
  faults,     \* storage / mail failures injected
  sched,      \* scheduler loop: "Idle" | "Running" | "Stopped"
  cancelTick, \* -1 while the scheduler's ctx is live, else tickNo when it was cancelled
  listing,    \* rows returned to the running tick
  idx,        \* position of the running tick in listing
  tickNo,     \* ticks started
  tickAt,     \* time of the next ticker fire
  mails,      \* SendHTML attempts
  oplog,      \* account operations served so far, in order
  password,   \* users.password, by user id: 0, or the request that set it
  resets,     \* password_resets, by user id (one address per user): <<>> or one row
  rprocs      \* invocations of ResetPassword

(* the variables of the account and password-reset operations *)
authVars == <<oplog, password, resets, rprocs>>

vars == <<rev, appEnv, now, advances, users, history, procs, calls, faults,
          sched, cancelTick, listing, idx, tickNo, tickAt, mails, authVars>>

(* ----------------------------- helpers --------------------------------- *)
ToLower(s) ==
  CASE s = "Daily" -> "daily"
    [] s = "Weekly" -> "weekly"
    [] s = "Monthly" -> "monthly"
    [] OTHER -> s

ValidPaces == {"daily", "weekly"}

Max(S) == CHOOSE x \in S : \A y \in S : y <= x

UserRecords(u) == {r \in BagToSet(history) : r.user = u}

(* ORDER BY delivered_at DESC LIMIT 1: any row with the greatest timestamp *)
LatestRecords(u) ==
  {r \in UserRecords(u) : \A q \in UserRecords(u) : q.at <= r.at}

FreeProc ==
  [kind |-> "free", pc |-> "free", uID |-> 0, tick |-> 0,
   listed |-> <<>>, pace |-> "", translation |-> "", last |-> <<>>,
   shouldSend |-> FALSE, verse |-> 0, err |-> "",
   tail |-> <<>>, didRead |-> FALSE, mailed |-> "", marked |-> "",
   gPrior |-> <<>>, gDue |-> FALSE, gFault |-> FALSE, gWhy |-> "",
   gCancelled |-> FALSE, wrote |-> FALSE,
   t0 |-> 0, after |-> 0]

FreeReset ==
  [pc |-> "free", email |-> 0, otp |-> 0, result |-> "", changed |-> FALSE,
   gSaved |-> <<>>, gNow |-> 0, gLatest |-> 0, gPrior |-> {}, gAtWrite |-> <<>>,
   overlapped |-> FALSE]

(* a slot for a new invocation: an unused one, else one whose invocation   *)
(* is over                                                                 *)
Unused == {p \in Procs : procs[p].pc = "free"}
Over == {p \in Procs : procs[p].pc = "done"}
FreeProcs == IF Unused # {} THEN Unused ELSE Over
LowestFree == CHOOSE p \in FreeProcs : \A q \in FreeProcs : p <= q
InFlight == {p \in Procs : procs[p].pc \notin {"free", "done"}}

(* invocations blocked inside smtp.SendMail on a server that never answers *)
Stalled == {p \in Procs : procs[p].pc = "stalled"}

(* The pace policy of the specification (section 4.1), used only to state  *)
(* claims: due iff no prior delivery or the pace's threshold has elapsed.  *)
Window(pace) ==
  IF pace = "weekly" THEN WeeklyHours * SecondsPerHour ELSE DailyHours * SecondsPerHour

PolicyDue(pace, prior, t) ==
  prior = <<>> \/ t - prior[1] >= Window(pace)

(* a switch that never finds a new verse due *)
ShouldSendNever(r, pace, last, t) == FALSE

(* shouldSend of GetUserDashboard; Hours() of a duration compared with the *)
(* threshold.  The second revision tests the daily case with <=.           *)
ShouldSend(r, pace, last, t) ==
  CASE pace = "daily" ->
         last = <<>> \/
           (IF r = 1 THEN t - last[1].at >= DailyHours * SecondsPerHour
                     ELSE t - last[1].at <= DailyHours * SecondsPerHour)
    [] pace = "weekly" ->
         last = <<>> \/ t - last[1].at >= WeeklyHours * SecondsPerHour
    [] OTHER -> FALSE

(* sendInterval of runVerseDistribution *)
SendInterval(pace) ==
  IF pace = "weekly" THEN SweepWeeklyDays * HoursPerDay * SecondsPerHour
                     ELSE SweepDefaultSeconds

SweepDueAlways(row, t) == TRUE

SweepDue(row, t) ==
  row.lastSent = <<>> \/ t - row.lastSent[1] >= SendInterval(row.pace)

SweepSkipsNever(row) == FALSE

(* the subscription test of the sweep loop *)
SweepSkips(row) == ~row.subscribed

TickerDuration ==
  IF appEnv = "production" THEN ProdTickerHours * SecondsPerHour
                           ELSE DevTickerHours * SecondsPerHour

NextTickAfter(t) == ((t \div TickerDuration) + 1) * TickerDuration

(* the pace GetUserDashboard validates: user.VersePace in the first         *)
(* revision, profile.VersePace in the second; GetUserWithProfile fills     *)
(* only user.VersePace, so profile.VersePace is the empty string.          *)
DashboardPace(r, stored) ==
  ToLower(IF r = 1 THEN stored ELSE "")

(* a goroutine that mails whatever GetUserDashboard returned, error or not *)
ReturnFromAnyway(pr, e, v) ==
  [pr EXCEPT !.err = e, !.verse = v,
             !.pc = IF pr.kind = "sweep" THEN "mail" ELSE "done"]

(* return from GetUserDashboard: a sweep goroutine goes on to the mail     *)
(* only when there was no error.                                           *)
ReturnFrom(pr, e, v) ==
  [pr EXCEPT !.err = e, !.verse = v,
             !.pc = IF pr.kind = "sweep" /\ e = "" THEN "mail" ELSE "done"]

LatestAt(u) ==
  IF UserRecords(u) = {} THEN <<>> ELSE <<Max({r.at : r \in UserRecords(u)})>>

(* ------------------------------- Init ---------------------------------- *)
Init ==
  /\ rev \in {1, 2}
  /\ appEnv \in {"development", "production"}
  /\ now = 0
  /\ advances = 0
  /\ \E cfg \in [Users -> UserConfigs], seeded \in BOOLEAN :
       /\ \A u \in Users : u > 1 => cfg[u] \in OtherConfigs
       /\ seeded => /\ cfg[1].completed
                    /\ ToLower(cfg[1].pace) \in ValidPaces
                    /\ VerseTranslation(SeedRecord.verse) = cfg[1].translation
       /\ users = IF seeded THEN [cfg EXCEPT ![1].lastSent = <<SeedRecord.at>>] ELSE cfg
       /\ history = IF seeded THEN SetToBag({SeedRecord}) ELSE EmptyBag
  /\ procs = [p \in Procs |-> FreeProc]
  /\ calls = 0
  /\ faults = 0
  /\ sched = "Idle"
  /\ cancelTick = -1
  /\ listing = <<>>
  /\ idx = 0
  /\ tickNo = 0
  /\ tickAt = TickerDuration
  /\ mails = {}
  /\ oplog = <<>>
  /\ password = [u \in Users |-> 0]
  /\ resets = [u \in Users |-> <<>>]
  /\ rprocs = [r \in Resets |-> FreeReset]

(* ------------------------------ actions -------------------------------- *)
Fails(ok) == ~ok => faults < MaxFaults
Count(ok) == IF ok THEN faults ELSE faults + 1

(* ctx.Done() of the context StartBackgroundJobs hands to StartScheduler   *)
CtxDone == cancelTick >= 0

(* a tick whose context dies with the first failed invocation of the tick *)
SweepAborted(pr) ==
  pr.kind = "sweep" /\
    \E q \in Procs : procs[q].kind = "sweep" /\ procs[q].tick = pr.tick /\
                      procs[q].pc = "done" /\ (procs[q].err # "" \/ procs[q].mailed = "failed")

(* The sweep goroutine passes that same ctx to every store call it makes;  *)
(* database/sql returns ctx.Err() for a call on a cancelled context.  A    *)
(* dashboard request runs on its own request context.                      *)
CtxErr(pr) == pr.kind = "sweep" /\ CtxDone

(* time passes *)
Advance(d) ==
  /\ advances < MaxAdvances
  /\ InFlight \subseteq Stalled
  /\ sched = "Idle"
  /\ ~CtxDone
  /\ now' = now + d
  /\ advances' = advances + 1
  /\ UNCHANGED <<authVars, rev, appEnv, users, history, procs, calls, faults, sched, cancelTick,
                 listing, idx, tickNo, tickAt, mails>>

(* GetUserDashboard without the IsProfileCompleted test *)
AfterProfileNoCheck(pr, ok) ==
  LET u == pr.uID
      bad == ~ok \/ (pr.kind = "sweep" /\ cancelTick >= 0)
      g == [pr EXCEPT !.gFault = pr.gFault \/ bad,
                      !.gWhy = IF ok THEN pr.gWhy ELSE "profile",
                      !.t0 = now]
  IN  IF bad THEN ReturnFrom(g, "user not found", 0)
      ELSE IF DashboardPace(rev, users[u].pace) \notin ValidPaces
           THEN ReturnFrom(g, "invalid pace", 0)
      ELSE [g EXCEPT !.pc = "readLast", !.pace = DashboardPace(rev, users[u].pace),
                     !.translation = users[u].translation]

(* GetUserWithProfile and the profile / pace checks of GetUserDashboard *)
AfterProfile(pr, ok) ==
  LET u == pr.uID
      bad == ~ok \/ CtxErr(pr)
      g == [pr EXCEPT !.gPrior = LatestAt(u),
                      !.gDue = PolicyDue(ToLower(users[u].pace), LatestAt(u), now),
                      !.gFault = pr.gFault \/ bad,
                      !.gWhy = IF ok THEN pr.gWhy ELSE "profile",
                      !.t0 = now]
  IN  IF bad THEN ReturnFrom(g, "user not found", 0)
      ELSE IF ~users[u].completed THEN ReturnFrom(g, "profile incomplete", 0)
      ELSE IF DashboardPace(rev, users[u].pace) \notin ValidPaces
           THEN ReturnFrom(g, "invalid pace", 0)
      ELSE [g EXCEPT !.pc = "readLast", !.pace = DashboardPace(rev, users[u].pace),
                     !.translation = users[u].translation]

(* goroutines the running tick has still to start; they count against     *)
(* MaxCalls from the moment the tick lists them                           *)
Reserved ==
  IF sched = "Running"
  THEN Cardinality({i \in idx .. Len(listing) :
                      ~SweepSkips(listing[i]) /\ SweepDue(listing[i], now)})
  ELSE 0

(* a dashboard request arrives: GetDashboardVerseHandler -> GetUserDashboard *)
DashRequest(u, ok) ==
  /\ calls + Reserved < MaxCalls
  /\ ~CtxDone
  /\ FreeProcs # {}
  /\ Fails(ok)
  /\ LET p == LowestFree
         done == {q \in Over \ {p} : procs[q].uID = u}
         prev == IF done = {} THEN 0 ELSE Max(done)
         pr == [FreeProc EXCEPT !.kind = "dash", !.pc = "start", !.uID = u, !.after = prev]
     IN  procs' = [q \in Procs |->
                     IF q = p THEN AfterProfile(pr, ok)
                     ELSE IF procs[q].after = p THEN [procs[q] EXCEPT !.after = 0]
                     ELSE procs[q]]
  /\ calls' = calls + 1
  /\ faults' = Count(ok)
  /\ UNCHANGED <<authVars, rev, appEnv, now, advances, users, history, sched, cancelTick, listing,
                 idx, tickNo, tickAt, mails>>

(* first step of a sweep goroutine: GetUserDashboard(ctx, uID) begins *)
GoProfile(p, ok) ==
  /\ procs[p].pc = "start"
  /\ Fails(ok)
  /\ CtxErr(procs[p]) => ok
  /\ procs' = [procs EXCEPT ![p] = AfterProfile(procs[p], ok)]
  /\ faults' = Count(ok)
  /\ UNCHANGED <<authVars, rev, appEnv, now, advances, users, history, calls, sched, cancelTick,
                 listing, idx, tickNo, tickAt, mails>>

NoRow == [user |-> 0, verse |-> 0, at |-> 0]

(* GetLastDeliveredVerse, time.Now(), the shouldSend switch, then          *)
(* GetUserNotes and GetAllUserVerseHistory.                                *)
(* outcome: "ok" | "lastFault" (GetLastDeliveredVerse fails with           *)
(* ErrInternalServer) | "sideFault" (notes or history read fails).         *)
AfterReadLast(pr, outcome, i) ==
  LET u == pr.uID
      none == UserRecords(u) = {}
      row == IF none THEN <<>> ELSE <<[verse |-> i.verse, at |-> i.at]>>
      eff == IF CtxErr(pr) THEN "ctx" ELSE outcome
      lerr == IF eff \in {"lastFault", "ctx"} THEN "internal server error"
              ELSE IF none THEN "record not found" ELSE ""
      last == IF lerr = "" THEN row ELSE <<>>
      g == [pr EXCEPT !.gPrior = LatestAt(u),
                      !.gDue = PolicyDue(ToLower(users[u].pace), LatestAt(u), now),
                      !.gFault = pr.gFault \/ eff # "ok",
                      !.gWhy = IF outcome = "ok" THEN pr.gWhy ELSE outcome,
                      !.didRead = TRUE,
                      !.t0 = now,
                      !.last = last,
                      !.shouldSend = ShouldSend(rev, pr.pace, last, now)]
  IN  IF rev = 2 /\ lerr # "" THEN ReturnFrom(g, lerr, 0)
      ELSE IF eff \in {"sideFault", "ctx"} THEN ReturnFrom(g, "failed to get user notes", 0)
      ELSE [g EXCEPT !.pc = "finish"]

GoReadLast(p, outcome) ==
  /\ procs[p].pc = "readLast"
  /\ Fails(outcome = "ok")
  /\ CtxErr(procs[p]) => outcome = "ok"
  /\ \E i \in (IF UserRecords(procs[p].uID) = {} THEN {NoRow} ELSE LatestRecords(procs[p].uID)) :
        procs' = [procs EXCEPT ![p] = AfterReadLast(procs[p], outcome, i)]
  /\ faults' = Count(outcome = "ok")
  /\ UNCHANGED <<authVars, rev, appEnv, now, advances, users, history, calls, sched, cancelTick,
                 listing, idx, tickNo, tickAt, mails>>

(* the tail of GetUserDashboard: GetRandomVerse and SaveDeliveredVerse     *)
(* when shouldSend, else the last delivered verse or the fallback error.   *)
(* outcome: "ok" | "pickFault" | "saveFault"                               *)
Candidates(translation) == {v \in Verses : VerseTranslation(v) = translation}

(* GetRandomVerse on an empty result: sql.ErrNoRows is returned as the     *)
(* package's ErrNotFound                                                   *)
NoRowsFromPick == "record not found"

(* errors.Is(err, sql.ErrNoRows) *)
IsSqlErrNoRows(e) == e = "sql: no rows in result set"

(* what GetUserDashboard returns for a failed GetRandomVerse: the first    *)
(* revision names the translation when the error is sql.ErrNoRows, the     *)
(* second returns the error as it is                                       *)
PickFailure(r, e) ==
  IF r = 1 /\ IsSqlErrNoRows(e)
  THEN "no verses found in database for translation" ELSE e

GoFinish(p, outcome, v) ==
  /\ procs[p].pc = "finish"
  /\ Fails(outcome = "ok")
  /\ CtxErr(procs[p]) => outcome = "ok"
  /\ faults' = Count(outcome = "ok")
  /\ LET eff == IF CtxErr(procs[p]) /\ procs[p].shouldSend THEN "ctx" ELSE outcome
         pr == [procs[p] EXCEPT !.gFault = procs[p].gFault \/ eff # "ok",
                                !.gWhy = IF outcome = "ok" THEN procs[p].gWhy ELSE outcome]
     IN  IF pr.shouldSend
         THEN IF eff \in {"pickFault", "ctx"}
              THEN /\ procs' = [procs EXCEPT ![p] = ReturnFrom(pr, "internal server error", 0)]
                   /\ UNCHANGED history
              ELSE IF Candidates(pr.translation) = {}
              THEN /\ outcome = "ok"
                   /\ procs' = [procs EXCEPT ![p] = ReturnFrom(pr, PickFailure(rev, NoRowsFromPick), 0)]
                   /\ UNCHANGED history
              ELSE /\ v \in Candidates(pr.translation)
                   /\ IF eff = "saveFault"
                      THEN /\ procs' = [procs EXCEPT ![p] = ReturnFrom(pr, "", v)]
                           /\ UNCHANGED history
                      ELSE /\ history' = history (+) SetToBag({[user |-> pr.uID, verse |-> v, at |-> now]})
                           /\ procs' = [procs EXCEPT ![p] = ReturnFrom([pr EXCEPT !.wrote = TRUE], "", v)]
         ELSE /\ outcome = "ok"
              /\ UNCHANGED history
              /\ IF pr.last # <<>>
                 THEN procs' = [procs EXCEPT ![p] = ReturnFrom(pr, "", pr.last[1].verse)]
                 ELSE procs' = [procs EXCEPT ![p] = ReturnFrom(pr, "no verse available", 0)]
  /\ UNCHANGED <<authVars, rev, appEnv, now, advances, users, calls, sched, cancelTick, listing,
                 idx, tickNo, tickAt, mails>>

(* The goroutine closes over the loop variable user and reads user.Email,  *)
(* user.UserName and user.VersePace when it builds the mail.  With one     *)
(* variable per iteration that is the row it was started for; with one     *)
(* variable per loop the read races with the loop, which has moved on to   *)
(* the row of its latest iteration.  The toolchain decides which, so the   *)
(* read yields either.                                                     *)
LoopVariable(p) ==
  IF sched = "Running" /\ procs[p].tick = tickNo /\ idx > 1
  THEN listing[idx - 1] ELSE procs[p].tail[1]

MailRows(p) == {procs[p].listed[1], LoopVariable(p)}

(* sweep goroutine: s.mail.SendHTML(user.Email, ...) *)
GoMail(p, ok) ==
  /\ procs[p].pc = "mail"
  /\ Fails(ok)
  /\ faults' = Count(ok)
  /\ \E row \in MailRows(p) :
       mails' = mails \cup {[to |-> row.id, uID |-> procs[p].uID,
                              verse |-> procs[p].verse, tick |-> procs[p].tick,
                              wrote |-> procs[p].wrote,
                              sub |-> procs[p].listed[1].subscribed, ok |-> ok]}
  /\ procs' = [procs EXCEPT ![p].pc = IF ok THEN "mark" ELSE "done",
                             ![p].mailed = IF ok THEN "ok" ELSE "failed",
                             ![p].gWhy = IF ok THEN procs[p].gWhy ELSE "mail"]
  /\ UNCHANGED <<authVars, rev, appEnv, now, advances, users, history, calls, sched, cancelTick,
                 listing, idx, tickNo, tickAt>>

(* sweep goroutine: s.mail.SendHTML against a mail server that accepts the *)
(* connection and never answers.  smtp.SendMail takes no context and sets  *)
(* no deadline, and the goroutine's ctx comes from context.WithCancel      *)
(* alone, so the call does not return and the goroutine has no further     *)
(* step.                                                                   *)
MailStall(p) ==
  /\ procs[p].pc = "mail"
  /\ procs' = [procs EXCEPT ![p].pc = "stalled"]
  /\ UNCHANGED <<authVars, rev, appEnv, now, advances, users, history, calls, faults, sched,
                 cancelTick, listing, idx, tickNo, tickAt, mails>>

(* sweep goroutine: s.authRepo.UpdateLastVerseSentAt(ctx, uID, time.Now()) *)
GoMark(p, ok) ==
  /\ procs[p].pc = "mark"
  /\ Fails(ok)
  /\ CtxErr(procs[p]) => ok
  /\ faults' = Count(ok)
  /\ LET done == ok /\ ~CtxErr(procs[p])
     IN  /\ users' = IF done THEN [users EXCEPT ![procs[p].uID].lastSent = <<now>>] ELSE users
         /\ procs' = [procs EXCEPT ![p].pc = "done",
                                    ![p].marked = IF done THEN "ok" ELSE "failed",
                                    ![p].gWhy = IF ok THEN procs[p].gWhy ELSE "mark"]
  /\ UNCHANGED <<authVars, rev, appEnv, now, advances, history, calls, sched, cancelTick, listing,
                 idx, tickNo, tickAt, mails>>

(* StartScheduler: <-ticker.C, runVerseDistribution begins with            *)
(* GetAllUsersWithVersePace.                                               *)
Row(u) == [id |-> u, pace |-> users[u].pace, lastSent |-> users[u].lastSent,
           subscribed |-> users[u].subscribed]

(* rows of the listing for which the loop starts a goroutine *)
Eligible == {u \in Users : ~SweepSkips(Row(u)) /\ SweepDue(Row(u), now)}

SweepTick(ok) ==
  /\ sched = "Idle"
  /\ now >= tickAt
  /\ Fails(ok)
  /\ CtxDone => ok
  /\ (ok /\ ~CtxDone) => calls + Cardinality(Eligible) <= MaxCalls
  /\ faults' = Count(ok)
  /\ tickAt' = NextTickAfter(now)
  /\ tickNo' = tickNo + 1
  /\ IF ok /\ ~CtxDone
     THEN /\ listing' = [i \in 1 .. NumUsers |-> Row(i)]
          /\ idx' = 1
          /\ sched' = "Running"
     ELSE UNCHANGED <<listing, idx, sched>>
  /\ UNCHANGED <<authVars, rev, appEnv, now, advances, users, history, procs, calls,
                 cancelTick, mails>>

(* one iteration of the loop over users in runVerseDistribution *)
SweepIter ==
  /\ sched = "Running"
  /\ idx <= Len(listing)
  /\ LET row == listing[idx]
         spawn == ~SweepSkips(row) /\ SweepDue(row, now)
     IN  IF spawn
         THEN /\ FreeProcs # {}
              /\ procs' = [q \in Procs |->
                             IF q = LowestFree
                             THEN [FreeProc EXCEPT !.kind = "sweep", !.pc = "start",
                                                   !.uID = row.id, !.tick = tickNo,
                                                   !.listed = <<row>>,
                                                   !.tail = <<listing[Len(listing)]>>,
                                                   !.t0 = now]
                             ELSE IF procs[q].after = LowestFree
                             THEN [procs[q] EXCEPT !.after = 0]
                             ELSE procs[q]]
              /\ calls' = calls + 1
         ELSE UNCHANGED <<procs, calls>>
  /\ idx' = idx + 1
  /\ UNCHANGED <<authVars, rev, appEnv, now, advances, users, history, faults, sched,
                 listing, tickNo, tickAt, mails, cancelTick>>

(* the loop over users is over: runVerseDistribution returns and           *)
(* StartScheduler is back at its select                                    *)
SweepReturn ==
  /\ sched = "Running"
  /\ idx > Len(listing)
  /\ sched' = "Idle"
  /\ listing' = <<>>
  /\ UNCHANGED <<authVars, rev, appEnv, now, advances, users, history, procs, calls,
                 faults, cancelTick, idx, tickNo, tickAt, mails>>

(* Server.StopBackgroundJobs: s.cancel() *)
Cancel ==
  /\ ~CtxDone
  /\ cancelTick' = tickNo
  /\ procs' = [p \in Procs |->
                 IF procs[p].kind = "sweep" /\ p \in InFlight
                 THEN [procs[p] EXCEPT !.gCancelled = TRUE] ELSE procs[p]]
  /\ UNCHANGED <<authVars, rev, appEnv, now, advances, users, history, calls, faults,
                 sched, listing, idx, tickNo, tickAt, mails>>

(* a loop that looks at ctx only when the ticker fires *)
StopAtTick ==
  /\ sched = "Idle"
  /\ CtxDone
  /\ now >= tickAt
  /\ sched' = "Stopped"
  /\ UNCHANGED <<authVars, rev, appEnv, now, advances, users, history, procs, calls,
                 faults, cancelTick, listing, idx, tickNo, tickAt, mails>>

(* StartScheduler: case <-ctx.Done(): return *)
Stop ==
  /\ sched = "Idle"
  /\ CtxDone
  /\ sched' = "Stopped"
  /\ UNCHANGED <<authVars, rev, appEnv, now, advances, users, history, procs, calls,
                 faults, cancelTick, listing, idx, tickNo, tickAt, mails>>

(* ------------------------ account operations --------------------------- *)
(* An account operation is one step: its statements run in one request and *)
(* what they leave behind on an early return is a row of users LEFT JOIN   *)
(* user_profiles like any other.  oplog keeps, per operation served, the   *)
(* row before and after and the number of ticks started by then.           *)
Serve(op, u, pace, result, new, ok) ==
  /\ Len(oplog) < MaxOps
  /\ Fails(ok)
  /\ faults' = Count(ok)
  /\ users' = [users EXCEPT ![u] = new]
  /\ oplog' = Append(oplog, [op |-> op, u |-> u, pace |-> pace, result |-> result,
                              before |-> users[u], after |-> new, tick |-> tickNo])
  /\ UNCHANGED <<rev, appEnv, now, advances, history, procs, calls, sched, cancelTick,
                 listing, idx, tickNo, tickAt, mails, password, resets, rprocs>>

(* an unsubscribe that switches the flag off instead of flipping it *)
ToggleOff(u, ok) ==
  Serve("toggle", u, "", IF ok THEN "ok" ELSE "fault",
        IF ok THEN [users[u] EXCEPT !.subscribed = FALSE] ELSE users[u], ok)

(* an unsubscribe that also clears the marker *)
ToggleClearsMarker(u, ok) ==
  Serve("toggle", u, "", IF ok THEN "ok" ELSE "fault",
        IF ok THEN [users[u] EXCEPT !.subscribed = ~@, !.lastSent = <<0>>] ELSE users[u], ok)

(* ToggleSubscribeUserService -> repository.UnsubscribeUser:               *)
(* SET is_subscribed = NOT is_subscribed                                   *)
ToggleSubscribe(u, ok) ==
  Serve("toggle", u, "", IF ok THEN "ok" ELSE "fault",
        IF ok THEN [users[u] EXCEPT !.subscribed = ~@] ELSE users[u], ok)

(* the test both profile services make on the request; the inspirations,   *)
(* user name, selected time (and email) of the request are present         *)
RequestAccepted(pace, translation) == ~(pace = "" \/ translation = "")

(* requests a client may send *)
ProfileRequests ==
  { [pace |-> "daily",   translation |-> "KJV"],
    [pace |-> "monthly", translation |-> "KJV"],
    [pace |-> "",        translation |-> "KJV"] }

(* AuthService.CompleteUserProfile: repo.CompleteUserProfile (upsert of    *)
(* the profile row), repo.UpdateUserInspirations, repo.MarkProfileCompleted.*)
(* outcome: "ok" | "upsertFault" | "markFault" (the upsert succeeded and a *)
(* later statement failed)                                                 *)
CompleteUserProfile(u, req, outcome) ==
  LET accepted == RequestAccepted(req.pace, req.translation)
      stored == [users[u] EXCEPT !.pace = req.pace, !.translation = req.translation]
      new == IF ~accepted \/ outcome = "upsertFault" THEN users[u]
             ELSE IF outcome = "markFault" THEN stored
             ELSE [stored EXCEPT !.completed = TRUE]
  IN  /\ ~accepted => outcome = "ok"
      /\ Serve("complete", u, req.pace,
               IF accepted THEN outcome ELSE "incomplete profile data", new, outcome = "ok")

(* AuthService.UpdateUserProfile: repo.UpdateUserProfile (one transaction: *)
(* email, upsert of the profile row), then repo.UpdateUserInspirations.    *)
(* outcome: "ok" | "upsertFault" | "inspFault"                             *)
UpdateUserProfile(u, req, outcome) ==
  LET accepted == RequestAccepted(req.pace, req.translation)
      stored == [users[u] EXCEPT !.pace = req.pace, !.translation = req.translation]
      new == IF ~accepted \/ outcome = "upsertFault" THEN users[u] ELSE stored
  IN  /\ ~accepted => outcome = "ok"
      /\ Serve("update", u, req.pace,
               IF accepted THEN outcome ELSE "incomplete profile data", new, outcome = "ok")

(* ---------------------------- password reset --------------------------- *)
(* ResetPassword calls of an address that have verified and not returned *)
InProgress(u) ==
  {r \in Resets : rprocs[r].pc \in {"verified", "written"} /\ rprocs[r].email = u}

(* ghost: the calls of the address other than r that are in progress while *)
(* another request for the address takes a step                            *)
Touch(u, r) ==
  [q \in Resets |-> IF q \in InProgress(u) /\ q # r
                    THEN [rprocs[q] EXCEPT !.overlapped = TRUE] ELSE rprocs[q]]

(* ghost: the latest SavePasswordReset of the address, as a position of    *)
(* oplog; 0 when there is none                                             *)
Issues(u) ==
  {i \in 1 .. Len(oplog) :
     oplog[i].op = "forget" /\ oplog[i].u = u /\ oplog[i].result = "ok"}
LatestIssue(u) == IF Issues(u) = {} THEN 0 ELSE Max(Issues(u))

(* AuthService.ForgetPassword for a known address: GenerateOTP, expiry ten *)
(* minutes from now, SavePasswordReset (one row per address, replaced on   *)
(* conflict).  The mail with the OTP goes out in a goroutine of its own    *)
(* and changes nothing here.                                               *)
ForgetPassword(u, otp, ok) ==
  /\ Len(oplog) < MaxOps
  /\ Fails(ok)
  /\ faults' = Count(ok)
  /\ resets' = IF ok
               THEN [resets EXCEPT ![u] = <<[otp |-> otp,
                                             expires |-> now + OtpMinutes * 60,
                                             issue |-> Len(oplog) + 1]>>]
               ELSE resets
  /\ oplog' = Append(oplog, [op |-> "forget", u |-> u, pace |-> "",
                              result |-> IF ok THEN "ok" ELSE "internal server error",
                              before |-> users[u], after |-> users[u], tick |-> tickNo])
  /\ rprocs' = Touch(u, 0)
  /\ UNCHANGED <<rev, appEnv, now, advances, users, history, procs, calls, sched, cancelTick,
                 listing, idx, tickNo, tickAt, mails, password>>

(* AuthService.VerifyOTP *)
VerifyOTP(row, otp, ok, t) ==
  /\ ok
  /\ row # <<>>
  /\ ~(t > row[1].expires)
  /\ otp = row[1].otp

(* AuthService.ResetPassword, first statement: h.VerifyOTP *)
ResetVerify(r, u, otp, ok) ==
  /\ rprocs[r].pc = "free"
  /\ \A q \in Resets : rprocs[q].pc = "free" => r <= q
  /\ Fails(ok)
  /\ faults' = Count(ok)
  /\ LET valid == VerifyOTP(resets[u], otp, ok, now)
     IN  rprocs' = [Touch(u, r) EXCEPT ![r] =
           [FreeReset EXCEPT !.pc = IF valid THEN "verified" ELSE "done",
                             !.email = u,
                             !.otp = otp,
                             !.result = IF valid THEN "" ELSE "invalid or expired OTP",
                             !.gSaved = resets[u],
                             !.gNow = now,
                             !.gLatest = LatestIssue(u),
                             !.gPrior = {q \in Resets : /\ rprocs[q].pc = "done"
                                                        /\ rprocs[q].result = "ok"
                                                        /\ rprocs[q].email = u
                                                        /\ rprocs[q].otp = otp},
                             !.overlapped = InProgress(u) # {}]]
  /\ UNCHANGED <<rev, appEnv, now, advances, users, history, procs, calls, sched, cancelTick,
                 listing, idx, tickNo, tickAt, mails, oplog, password, resets>>

(* ResetPassword: util.HashPasswordBcrypt, then h.repo.UpdateUserPassword; *)
(* the stored password becomes the one of this request                     *)
ResetWrite(r, outcome) ==
  LET u == rprocs[r].email
      ok == outcome = "ok"
  IN  /\ rprocs[r].pc = "verified"
      /\ Fails(ok)
      /\ faults' = Count(ok)
      /\ password' = IF ok THEN [password EXCEPT ![u] = r] ELSE password
      /\ rprocs' = [Touch(u, r) EXCEPT ![r].pc = IF ok THEN "written" ELSE "done",
                                       ![r].result = IF ok THEN "" ELSE outcome,
                                       ![r].changed = ok,
                                       ![r].gAtWrite = resets[u]]
      /\ UNCHANGED <<rev, appEnv, now, advances, users, history, procs, calls, sched,
                     cancelTick, listing, idx, tickNo, tickAt, mails, oplog, resets>>

(* ResetPassword: h.repo.DeletePasswordReset, then return *)
ResetDelete(r, ok) ==
  LET u == rprocs[r].email
  IN  /\ rprocs[r].pc = "written"
      /\ Fails(ok)
      /\ faults' = Count(ok)
      /\ resets' = IF ok THEN [resets EXCEPT ![u] = <<>>] ELSE resets
      /\ rprocs' = [Touch(u, r) EXCEPT ![r].pc = "done",
                                       ![r].result = IF ok THEN "ok" ELSE "deleteFault"]
      /\ UNCHANGED <<rev, appEnv, now, advances, users, history, procs, calls, sched,
                     cancelTick, listing, idx, tickNo, tickAt, mails, oplog, password>>

Next ==
  \/ \E d \in ClockSteps : Advance(d)
  \/ \E u \in Users, ok \in BOOLEAN : DashRequest(u, ok)
  \/ \E p \in Procs, ok \in BOOLEAN : GoProfile(p, ok)
  \/ \E p \in Procs, o \in {"ok", "lastFault", "sideFault"} : GoReadLast(p, o)
  \/ \E p \in Procs, o \in {"ok", "pickFault", "saveFault"}, v \in Verses : GoFinish(p, o, v)
  \/ \E p \in Procs, ok \in BOOLEAN : GoMail(p, ok)
  \/ \E p \in Procs, ok \in BOOLEAN : GoMark(p, ok)
  \/ \E ok \in BOOLEAN : SweepTick(ok)
  \/ SweepIter
  \/ SweepReturn
  \/ Cancel
  \/ Stop

Spec == Init /\ [][Next]_vars

(* The sweep together with the account operations of user 1, from a start *)
(* in which user 1 has no profile yet or a daily one.  The storage and     *)
(* mail calls of the sweep succeed here; an account operation may fail.    *)
AccountInit ==
  /\ Init
  /\ rev = 1
  /\ appEnv = "development"
  /\ history = EmptyBag
  /\ users[1].subscribed
  /\ users[1].pace \in {"", "daily"}
  /\ users[1].translation \in {"", "KJV"}

AccountNext ==
  \/ Advance(SecondsPerHour)
  \/ \E p \in Procs : GoProfile(p, TRUE)
  \/ \E p \in Procs : GoReadLast(p, "ok")
  \/ \E p \in Procs, v \in Verses : GoFinish(p, "ok", v)
  \/ \E p \in Procs : GoMail(p, TRUE)
  \/ \E p \in Procs : GoMark(p, TRUE)
  \/ SweepTick(TRUE)
  \/ SweepIter
  \/ SweepReturn
  \/ \E ok \in BOOLEAN : ToggleSubscribe(1, ok)
  \/ \E req \in ProfileRequests, o \in {"ok", "upsertFault", "markFault"} :
       CompleteUserProfile(1, req, o)
  \/ \E req \in ProfileRequests, o \in {"ok", "upsertFault", "inspFault"} :
       UpdateUserProfile(1, req, o)

AccountSpec == AccountInit /\ [][AccountNext]_vars

(* The scheduler goroutine is runnable whenever its select has a ready     *)
(* case or its loop over users has a next step (starting a goroutine never *)
(* blocks), and the Go runtime runs every runnable goroutine: weak         *)
(* fairness on the steps of StartScheduler and runVerseDistribution.       *)
(* The loop's course does not depend on what an invocation returns, so the *)
(* runs start from the first revision, an empty user_verse_history and a   *)
(* first subscriber with a complete profile.                               *)
LiveInit ==
  /\ Init
  /\ rev = 1
  /\ history = EmptyBag
  /\ users[1].completed /\ users[1].translation = "KJV"
  /\ users[1].pace \in {"daily", "weekly"}

LiveSpec ==
  /\ LiveInit
  /\ [][Next]_vars
  /\ WF_vars(SweepIter)
  /\ WF_vars(SweepReturn)
  /\ WF_vars(Stop)

(* The password-reset requests of the HTTP server, each ResetPassword call *)
(* in a goroutine of its own taking its three statements one at a time.    *)
(* The clock moves between calls by the lifetime of an OTP or by an hour.  *)
ResetNext ==
  \/ \E d \in {OtpMinutes * 60, SecondsPerHour} :
       (\A u \in Users : InProgress(u) = {}) /\ Advance(d)
  \/ \E u \in Users, otp \in OTPs, ok \in BOOLEAN : ForgetPassword(u, otp, ok)
  \/ \E r \in Resets, u \in Users, otp \in OTPs, ok \in BOOLEAN : ResetVerify(r, u, otp, ok)
  \/ \E r \in Resets, o \in {"ok", "hashFault", "updateFault"} : ResetWrite(r, o)
  \/ \E r \in Resets, ok \in BOOLEAN : ResetDelete(r, ok)

ResetSpec == AccountInit /\ [][ResetNext]_vars

(* The program with a mail server that may stall. *)
StallNext ==
  \/ Next
  \/ \E p \in Procs : MailStall(p)

StallSpec == LiveInit /\ [][StallNext]_vars

(* ============================== claims ================================= *)
Returned(p) == procs[p].pc \in {"mail", "mark", "done"}
StoredPace(u) == ToLower(users[u].pace)
Healthy(p) == ~procs[p].gFault
HasContent(u) == Candidates(users[u].translation) # {}

(* C1: at most one DeliveryRecord per subscriber within one due window     *)
(* (24 h daily, 168 h weekly), whatever the interleaving of sweep          *)
(* goroutines and dashboard calls; stated for runs in which no storage or  *)
(* mail call has failed.                                                   *)
C1_AtMostOncePerWindow ==
  faults = 0 =>
    \A u \in Users : \A r1, r2 \in UserRecords(u) :
      /\ history[r1] = 1
      /\ r1 # r2 => (r1.at - r2.at >= Window(StoredPace(u)) \/
                     r2.at - r1.at >= Window(StoredPace(u)))

(* C2: of two GetUserDashboard calls that both found the same subscriber   *)
(* due on the same prior state, only one commits a DeliveryRecord, and     *)
(* both succeed and return the same artifact.                              *)
C2_RaceCommitsOnce ==
  \A p, q \in Procs :
    (/\ p # q
     /\ Returned(p) /\ Returned(q)
     /\ procs[p].uID = procs[q].uID
     /\ Healthy(p) /\ Healthy(q)
     /\ procs[p].shouldSend /\ procs[q].shouldSend
     /\ procs[p].gDue /\ procs[q].gDue
     /\ procs[p].gPrior = procs[q].gPrior
     /\ procs[p].t0 = procs[q].t0)
    => /\ ~(procs[p].wrote /\ procs[q].wrote)
       /\ procs[p].err = "" /\ procs[q].err = ""
       /\ procs[p].verse = procs[q].verse

(* C3: the marker users.last_verse_sent_at is absent iff the subscriber    *)
(* has no DeliveryRecord, and otherwise equals the timestamp of the most   *)
(* recent DeliveryRecord.                                                  *)
C3_MarkerMatchesLog ==
  \A u \in Users : users[u].lastSent = LatestAt(u)

(* C4: for a subscriber of pace daily or weekly, a GetUserDashboard call   *)
(* delivers a new artifact iff there is no prior delivery or at least      *)
(* 24 h (daily) / 168 h (weekly) have passed since the last one.           *)
C4_OnDemandPacePolicy ==
  \A p \in Procs :
    (/\ Returned(p)
     /\ Healthy(p)
     /\ users[procs[p].uID].completed
     /\ StoredPace(procs[p].uID) \in ValidPaces
     /\ HasContent(procs[p].uID))
    => (procs[p].wrote <=> procs[p].gDue)

(* C5: the due check of the sweep loop agrees with the pace policy on      *)
(* every subscribed listed row of pace daily or weekly: due iff no prior   *)
(* delivery or 24 h / 168 h elapsed.                                       *)
C5_SweepAgreesWithPolicy ==
  (sched = "Running" /\ idx <= Len(listing)) =>
    ((listing[idx].pace \in ValidPaces /\ ~SweepSkips(listing[idx])) =>
       (SweepDue(listing[idx], now)
          <=> PolicyDue(listing[idx].pace, listing[idx].lastSent, now)))

InvalidPace(u) == users[u].completed /\ StoredPace(u) \notin ValidPaces

(* C6: a subscriber with a completed profile whose pace is neither daily   *)
(* nor weekly is rejected with the invalid-pace error by GetUserDashboard  *)
(* and is never judged due by the sweep on a default cadence; nothing is   *)
(* delivered or mailed for it.                                             *)
C6_InvalidPaceRejected ==
  /\ \A p \in Procs :
       (Returned(p) /\ Healthy(p) /\ InvalidPace(procs[p].uID))
       => (procs[p].err = "invalid pace" /\ ~procs[p].wrote)
  /\ \A p \in Procs :
       procs[p].kind = "sweep" => ~InvalidPace(procs[p].uID)
  /\ \A m \in mails : ~InvalidPace(m.uID)
  /\ \A u \in Users : InvalidPace(u) => UserRecords(u) = {}

(* start of the due window a returned call fell in *)
WindowStart(p) == IF procs[p].gDue THEN procs[p].t0 ELSE procs[p].gPrior[1]

(* C7: two GetUserDashboard calls for one subscriber, the second begun     *)
(* after the first returned and inside the same due window, both           *)
(* succeeding, return the same artifact, and one DeliveryRecord exists     *)
(* for that window.                                                        *)
C7_ResolveIdempotent ==
  \A q \in Procs :
    LET p == procs[q].after IN
    (/\ p # 0
     /\ Returned(q)
     /\ Healthy(q)
     /\ procs[p].err = "" /\ procs[q].err = ""
     /\ procs[q].t0 - WindowStart(p) < Window(StoredPace(procs[q].uID)))
    => /\ procs[q].verse = procs[p].verse
       /\ BagCardinality([r \in {x \in UserRecords(procs[q].uID) : x.at >= WindowStart(p)}
                            |-> history[r]]) = 1

(* C8: the first GetUserDashboard call for a daily subscriber with a       *)
(* completed profile and content for the translation succeeds with a new   *)
(* artifact and commits a DeliveryRecord stamped with the time of the call.*)
C8_FirstDelivery ==
  \A p \in Procs :
    (/\ Returned(p)
     /\ Healthy(p)
     /\ users[procs[p].uID].completed
     /\ StoredPace(procs[p].uID) = "daily"
     /\ HasContent(procs[p].uID)
     /\ procs[p].gPrior = <<>>)
    => /\ procs[p].err = ""
       /\ procs[p].verse \in Candidates(users[procs[p].uID].translation)
       /\ procs[p].wrote
       /\ BagIn([user |-> procs[p].uID, verse |-> procs[p].verse, at |-> procs[p].t0], history)

(* a returned call whose subscriber had a prior delivery and was not due *)
NotDueCall(p) ==
  /\ Returned(p)
  /\ Healthy(p)
  /\ users[procs[p].uID].completed
  /\ StoredPace(procs[p].uID) \in ValidPaces
  /\ procs[p].gPrior # <<>>
  /\ ~procs[p].gDue

(* C9: a GetUserDashboard call for a subscriber with a prior delivery who  *)
(* is not due (daily and less than 24 h, weekly and less than 168 h since  *)
(* the last DeliveryRecord) succeeds with the artifact of the most recent  *)
(* DeliveryRecord and adds no DeliveryRecord.  (No step of GetUserDashboard*)
(* writes users.last_verse_sent_at: GoMark is the only writer.)            *)
C9_NotDueChangesNothing ==
  \A p \in Procs :
    NotDueCall(p)
    => /\ procs[p].err = ""
       /\ ~procs[p].wrote
       /\ \E r \in UserRecords(procs[p].uID) :
            r.at = procs[p].gPrior[1] /\ r.verse = procs[p].verse

(* C10: a subscriber listed by a tick with is_subscribed = false is        *)
(* skipped by that tick: no goroutine is started for it, so the tick runs  *)
(* no GetUserDashboard, no SendHTML and no UpdateLastVerseSentAt on its    *)
(* behalf.                                                                 *)
C10_UnsubscribedSkipped ==
  /\ \A p \in Procs : procs[p].kind = "sweep" => procs[p].listed[1].subscribed
  /\ \A m \in mails : m.sub
C10_Witness ==
  /\ sched = "Running"
  /\ \E i \in 1 .. Len(listing) :
       i < idx /\ ~listing[i].subscribed /\ SweepDue(listing[i], now)

(* the marker-only check of the sweep, restated from the listed row *)
MarkerDue(row, t) ==
  row.lastSent = <<>> \/ t - row.lastSent[1] >= SendInterval(row.pace)

Invocations(k, u) ==
  {p \in Procs : procs[p].kind = "sweep" /\ procs[p].tick = k /\ procs[p].uID = u}

(* C11: while a tick whose listing succeeded runs, every listed row the    *)
(* loop has passed has exactly one GetUserDashboard goroutine of this tick *)
(* if it is subscribed and due by the marker-only check, and none          *)
(* otherwise; rows not yet reached have none.                              *)
C11_InvokedOncePerDueRow ==
  sched = "Running" =>
    \A i \in 1 .. Len(listing) :
      Cardinality(Invocations(tickNo, listing[i].id))
        = IF i < idx /\ listing[i].subscribed /\ MarkerDue(listing[i], now)
          THEN 1 ELSE 0
C11_Witness ==
  /\ sched = "Running"
  /\ idx > Len(listing)
  /\ \E i, j \in 1 .. Len(listing) :
       /\ listing[i].subscribed /\ MarkerDue(listing[i], now)
       /\ listing[j].subscribed /\ ~MarkerDue(listing[j], now)
       /\ Invocations(tickNo, listing[i].id) # {}
       /\ Invocations(tickNo, listing[j].id) = {}

(* an invocation one of whose own store or mail calls failed *)
Injected(p) == procs[p].gWhy # ""

(* a sweep invocation with nothing of its own in the way: complete profile, *)
(* a pace GetUserDashboard accepts, content for the translation, no failed  *)
(* call of its own                                                          *)
Unhindered(p) ==
  /\ procs[p].kind = "sweep"
  /\ ~Injected(p)
  /\ users[procs[p].uID].completed
  /\ DashboardPace(rev, users[procs[p].uID].pace) \in ValidPaces
  /\ HasContent(procs[p].uID)

FailedInTick(k) ==
  {p \in Procs : /\ procs[p].kind = "sweep" /\ procs[p].tick = k /\ procs[p].pc = "done"
                 /\ (procs[p].err # "" \/ procs[p].mailed = "failed")}

(* C12: sweep isolation.  While the scheduler's context is live, the loop  *)
(* of a tick starts a goroutine for every subscribed due row whatever has  *)
(* become of the goroutines started before, and every sweep invocation     *)
(* with nothing of its own in the way ends with a verse resolved, the mail *)
(* sent and the marker written, whatever failed for other subscribers.     *)
C12_SweepIsolation ==
  ~CtxDone =>
    /\ (sched = "Running" /\ idx > Len(listing)) =>
         \A i \in 1 .. Len(listing) :
           (listing[i].subscribed /\ MarkerDue(listing[i], now))
             => Invocations(tickNo, listing[i].id) # {}
    /\ \A q \in Procs :
         (Unhindered(q) /\ procs[q].pc = "done")
         => /\ procs[q].err = ""
            /\ procs[q].verse \in Verses
            /\ procs[q].mailed = "ok"
            /\ procs[q].marked = "ok"
C12_Witness ==
  /\ ~CtxDone
  /\ \E p, q \in Procs :
       /\ p \in FailedInTick(procs[q].tick)
       /\ p # q
       /\ Unhindered(q) /\ procs[q].pc = "done" /\ procs[q].marked = "ok"

(* C13: once the scheduler's context is cancelled no further tick begins:  *)
(* the number of ticks started stays what it was at the cancellation, even *)
(* when the ticker has fired by then.                                      *)
C13_NoTickAfterCancel ==
  CtxDone => tickNo = cancelTick

SchedSteps ==
  {<<"Idle", "Running">>, <<"Running", "Idle">>, <<"Idle", "Stopped">>}

(* C14: the loop moves only Idle -> Running -> Idle, leaving Idle for      *)
(* Running only when the ticker period has elapsed, and Idle -> Stopped;   *)
(* nothing leaves Stopped; and once the context is cancelled the loop      *)
(* eventually is Stopped (the clock does not move after the cancellation,  *)
(* so no further timer tick is waited for).                                *)
C14_SchedulerLifecycle ==
  /\ [][sched' # sched => <<sched, sched'>> \in SchedSteps]_vars
  /\ [][(sched = "Idle" /\ sched' = "Running") => now >= tickAt]_vars
  /\ [][sched = "Stopped" => (sched' = "Stopped" /\ tickNo' = tickNo)]_vars
  /\ [][CtxDone => now' = now]_vars
  /\ (CtxDone ~> sched = "Stopped")
C14_Witness ==
  /\ sched = "Stopped"
  /\ cancelTick >= 1
  /\ now < tickAt
  /\ \E p \in Procs : procs[p].gCancelled

(* C15: a sweep invocation that was in flight when the scheduler's context *)
(* was cancelled, and that has nothing of its own in the way, still runs   *)
(* to completion: verse resolved, mail sent, marker written.               *)
C15_InFlightSurvivesCancel ==
  \A p \in Procs :
    (procs[p].gCancelled /\ Unhindered(p) /\ procs[p].pc = "done")
    => /\ procs[p].err = ""
       /\ procs[p].mailed = "ok"
       /\ procs[p].marked = "ok"

(* C16: a GetUserDashboard call whose DeliveryRecord write failed returns  *)
(* an error and no artifact.                                               *)
C16_SaveFailureReported ==
  \A p \in Procs :
    (Returned(p) /\ procs[p].gWhy = "saveFault")
    => (procs[p].err # "" /\ procs[p].verse = 0)

(* C17: a GetUserDashboard call whose read of the last delivery failed     *)
(* with a storage error returns an error and writes no DeliveryRecord; a   *)
(* call that read no row for a subscriber without deliveries, and met no   *)
(* failure, does not end with the error of that read.                      *)
C17_ReadErrorSurfaced ==
  \A p \in Procs :
    /\ (Returned(p) /\ procs[p].gWhy = "lastFault")
       => (procs[p].err # "" /\ ~procs[p].wrote)
    /\ (Returned(p) /\ procs[p].didRead /\ Healthy(p) /\ procs[p].gPrior = <<>>)
       => procs[p].err # "record not found"

(* C18: when the mail of a sweep invocation that committed a DeliveryRecord *)
(* fails, the record stays in user_verse_history and the marker is written *)
(* as after a successful send (stated while the context is live).          *)
C18_MailFailureKeepsDelivery ==
  ~CtxDone =>
    \A p \in Procs :
      (/\ procs[p].kind = "sweep" /\ procs[p].pc = "done"
       /\ procs[p].wrote /\ procs[p].mailed = "failed")
      => /\ BagIn([user |-> procs[p].uID, verse |-> procs[p].verse, at |-> procs[p].t0], history)
         /\ procs[p].marked = "ok"
         /\ users[procs[p].uID].lastSent = <<procs[p].t0>>

(* C19: a failed SendHTML for a committed DeliveryRecord is not attempted  *)
(* again by a later tick: every later attempt for that subscriber belongs  *)
(* to a DeliveryRecord its own invocation wrote.                           *)
C19_NoMailRetry ==
  \A m1, m2 \in mails :
    (/\ m1.uID = m2.uID
     /\ m1.wrote /\ ~m1.ok
     /\ m1.tick < m2.tick)
    => m2.wrote

(* a returned invocation for a subscriber whose profile is incomplete and  *)
(* whose GetUserWithProfile did not fail                                   *)
IncompleteCall(p) ==
  /\ Returned(p)
  /\ ~users[procs[p].uID].completed
  /\ procs[p].gWhy # "profile"
  /\ ~(procs[p].kind = "sweep" /\ CtxDone)

(* C20: GetUserDashboard for a subscriber with IsProfileCompleted = false  *)
(* ends with the profile-incomplete error, with no read of the last        *)
(* delivery, no artifact, no DeliveryRecord and no marker for that         *)
(* subscriber, whatever pace the profile row holds.                        *)
C20_IncompleteRejectedFirst ==
  /\ \A p \in Procs :
       IncompleteCall(p)
       => /\ procs[p].err = "profile incomplete"
          /\ procs[p].pc = "done"
          /\ ~procs[p].didRead
          /\ procs[p].verse = 0
          /\ ~procs[p].wrote
  /\ \A u \in Users :
       ~users[u].completed => (UserRecords(u) = {} /\ users[u].lastSent = <<>>)
C20_Witness ==
  \E p \in Procs :
    /\ IncompleteCall(p)
    /\ procs[p].kind = "dash"
    /\ ToLower(users[procs[p].uID].pace) \in ValidPaces
    /\ HasContent(procs[p].uID)
    /\ procs[p].err = "profile incomplete"

(* C21: a GetUserDashboard call that judged the subscriber due and found   *)
(* no verse of the subscriber's translation ends with the error that names *)
(* the translation, writes no DeliveryRecord and leaves the subscriber     *)
(* without a new record.                                                   *)
C21_NoContentError ==
  \A p \in Procs :
    (/\ Returned(p) /\ Healthy(p)
     /\ procs[p].didRead /\ procs[p].shouldSend
     /\ Candidates(procs[p].translation) = {})
    => /\ procs[p].err = "no verses found in database for translation"
       /\ procs[p].verse = 0
       /\ ~procs[p].wrote

(* C25: every SendHTML attempt of a sweep goroutine carries a verse that   *)
(* the same invocation committed as a new DeliveryRecord; stated for runs  *)
(* in which no storage or mail call has failed.                            *)
C25_MailOnlyNewDelivery ==
  faults = 0 => \A m \in mails : m.wrote

MailsOf(p) == {m \in mails : m.uID = procs[p].uID /\ m.tick = procs[p].tick}

(* C26: a sweep goroutine whose GetUserDashboard returned an error ends    *)
(* there: it attempts no mail and writes no marker; and the scheduler      *)
(* loop stops for no reason other than cancellation.                       *)
C26_FailedDeliveryOnlyLogged ==
  /\ \A p \in Procs :
       (procs[p].kind = "sweep" /\ Returned(p) /\ procs[p].err # "")
       => /\ procs[p].pc = "done"
          /\ procs[p].mailed = "" /\ procs[p].marked = ""
          /\ MailsOf(p) = {}
  /\ sched = "Stopped" => CtxDone
C26_Witness ==
  /\ sched = "Running"
  /\ \E p \in Procs :
       /\ procs[p].kind = "sweep" /\ procs[p].pc = "done" /\ procs[p].err # ""
       /\ procs[p].tick < tickNo
       /\ users[procs[p].uID].lastSent = <<>>

LastRows == {<<>>} \cup {<<[verse |-> r.verse, at |-> r.at]>> : r \in BagToSet(history)}

(* C28: no GetUserDashboard call ends with the final fallback error: for   *)
(* either revision, a pace of daily or weekly and any last delivered row   *)
(* at the present time, a new verse is due or a last delivered verse       *)
(* exists.                                                                 *)
C28_FallbackUnreachable ==
  /\ \A p \in Procs : procs[p].err # "no verse available"
  /\ \A r \in {1, 2}, pace \in ValidPaces, last \in LastRows :
       ShouldSend(r, pace, last, now) \/ last # <<>>
C28_Witness ==
  \E p \in Procs :
    /\ Returned(p) /\ procs[p].didRead
    /\ ~procs[p].shouldSend
    /\ procs[p].last # <<>>
    /\ procs[p].err = "" /\ procs[p].verse = procs[p].last[1].verse

ProfileOps == {i \in 1 .. Len(oplog) : oplog[i].op \in {"complete", "update"}}

(* C22: every subscriber with a completed profile has pace daily or        *)
(* weekly, and a CompleteUserProfile or UpdateUserProfile request with any *)
(* other verse_pace is rejected and leaves the stored row as it was.       *)
C22_PaceInvariant ==
  /\ \A u \in Users : users[u].completed => users[u].pace \in ValidPaces
  /\ \A i \in ProfileOps :
       oplog[i].pace \notin ValidPaces
       => (oplog[i].result # "ok" /\ oplog[i].after = oplog[i].before)

Markers == [u \in Users |-> users[u].lastSent]

(* an account operation or a mail attempt has been served by now *)
Served(op) == \E i \in 1 .. Len(oplog) : oplog[i].op = op /\ oplog[i].result = "ok"

(* C23: user_verse_history changes only in the step of GetUserDashboard    *)
(* that saves the delivered verse, and users.last_verse_sent_at only in    *)
(* the marker update that follows a delivery; the steps of the sweep loop, *)
(* the mail step, the subscription toggle and the profile operations       *)
(* change neither.                                                         *)
C23_SingleWriter ==
  /\ [][history' # history => \E p \in Procs, v \in Verses : GoFinish(p, "ok", v)]_vars
  /\ [][Markers' # Markers => \E p \in Procs : GoMark(p, TRUE)]_vars
  /\ [][(Len(oplog') > Len(oplog) \/ mails' # mails \/ sched' # sched \/ idx' # idx)
          => (history' = history /\ Markers' = Markers)]_vars
C23_Witness ==
  /\ Served("toggle") /\ Served("update")
  /\ mails # {}
  /\ \E u \in Users : users[u].lastSent # <<>> /\ UserRecords(u) # {}

(* the successful toggles of a subscriber, as positions of oplog *)
Flips(u) ==
  {i \in 1 .. Len(oplog) : oplog[i].op = "toggle" /\ oplog[i].u = u /\ oplog[i].result = "ok"}

(* ticks started when the subscriber's flag was last flipped *)
LastFlipTick(u) == IF Flips(u) = {} THEN 0 ELSE oplog[Max(Flips(u))].tick

(* C29: a successful ToggleSubscribeUserService call flips is_subscribed   *)
(* and leaves the rest of the row (pace, translation, marker) as it was;   *)
(* two consecutive calls restore the flag; no call changes                 *)
(* user_verse_history; and while the flag is false no tick started after   *)
(* the call that switched it off has an invocation for the subscriber.     *)
C29_ToggleInvolution ==
  /\ [](\A u \in Users : \A i \in Flips(u) :
          oplog[i].after = [oplog[i].before EXCEPT !.subscribed = ~oplog[i].before.subscribed])
  /\ [](\A u \in Users : \A i, j \in Flips(u) :
          (i < j /\ ~\E k \in Flips(u) : i < k /\ k < j)
          => oplog[j].after.subscribed = oplog[i].before.subscribed)
  /\ [][(Len(oplog') > Len(oplog) /\ oplog'[Len(oplog')].op = "toggle")
          => history' = history]_vars
  /\ [](\A u \in Users : ~users[u].subscribed =>
          \A p \in Procs : (procs[p].kind = "sweep" /\ procs[p].uID = u)
                           => procs[p].tick <= LastFlipTick(u))
C29_Witness ==
  /\ Cardinality(Flips(1)) = 2
  /\ users[1].subscribed
  /\ \E p \in Procs : procs[p].kind = "sweep" /\ procs[p].uID = 1
                      /\ procs[p].tick > LastFlipTick(1)
C29_SkippedAfterToggle ==
  /\ Flips(1) # {} /\ ~users[1].subscribed
  /\ sched = "Running" /\ idx > Len(listing) /\ tickNo > LastFlipTick(1)
  /\ Invocations(tickNo, 1) = {} /\ Invocations(tickNo, 2) # {}

(* C24: a sweep invocation whose mail call stalls still terminates: it     *)
(* always has a step that ends it (the timeout, reported as a failure for  *)
(* that subscriber), and a later tick can still start.                     *)
C24_StalledDeliveryTimesOut ==
  \A p \in Stalled : ENABLED (StallNext /\ procs'[p].pc = "done")

(* a tick that starts while an invocation of an earlier tick is stalled *)
C24_LaterTickRuns ==
  \E p \in Stalled : procs[p].tick < tickNo /\ sched = "Running"

(* C30: a password-reset OTP is single-use: of the ResetPassword calls     *)
(* supplied with one saved OTP of an address, at most one changes the      *)
(* stored password.                                                        *)
C30_OtpSingleUse ==
  \A a, b \in Resets :
    (/\ rprocs[a].changed /\ rprocs[b].changed
     /\ rprocs[a].email = rprocs[b].email
     /\ rprocs[a].gSaved = rprocs[b].gSaved) => a = b

(* the same sentence for the calls no other request of the address         *)
(* overlaps: a change of the password implies that the supplied OTP was    *)
(* the latest saved one, unexpired, and still the saved one at the write;  *)
(* a rejected call changes nothing; a call verified after a successful     *)
(* call with the same OTP, no OTP saved in between, is rejected.           *)
C30_HoldsWithoutOverlap ==
  \A r \in Resets :
    /\ (rprocs[r].changed /\ ~rprocs[r].overlapped) =>
         /\ rprocs[r].gSaved # <<>>
         /\ rprocs[r].otp = rprocs[r].gSaved[1].otp
         /\ rprocs[r].gNow <= rprocs[r].gSaved[1].expires
         /\ rprocs[r].gSaved[1].issue = rprocs[r].gLatest
         /\ rprocs[r].gAtWrite = rprocs[r].gSaved
    /\ rprocs[r].result = "invalid or expired OTP" =>
         (~rprocs[r].changed /\ \A u \in Users : password[u] # r)
    /\ \A a \in rprocs[r].gPrior :
         rprocs[a].gSaved[1].issue = rprocs[r].gLatest =>
           (rprocs[r].result = "invalid or expired OTP" /\ ~rprocs[r].changed)

(* two calls one after the other with the same OTP: the first succeeds,    *)
(* the second is rejected                                                  *)
C30_SecondUseRejected ==
  \E a, b \in Resets :
    /\ a \in rprocs[b].gPrior
    /\ ~rprocs[a].overlapped /\ ~rprocs[b].overlapped
    /\ rprocs[b].result = "invalid or expired OTP"
    /\ password[rprocs[a].email] = a
====
